---- MODULE Spec2Model ----
(***************************************************************************)
(* mv_videos (src/src/bin/mv_videos.rs) and the console confirmation       *)
(* prompt of the library (src/src/lib.rs, module console).                  *)
(*                                                                         *)
(* Strings are sequences of one-character strings.  An Option / "not yet   *)
(* assigned" value is a sequence of length 0 or 1.                         *)
(*                                                                         *)
(* Two executions of main are carried side by side: `run` and `twin`.      *)
(* They start from the same file system and the same arguments except for  *)
(* the dry flag, and the environment answers both in the same way (same    *)
(* spawn outcome, same captured output, same files vanishing).  Every      *)
(* claim about one execution is stated on `run`; `twin` is only read by    *)
(* the claim that compares two executions.                                 *)
(***************************************************************************)
EXTENDS Integers, Sequences, FiniteSets, TLC

VARIABLES run, twin, ask

vars == <<run, twin, ask>>

(* ------------------------------ bounds --------------------------------- *)

\* longest captured output of the discovery command, in characters
MaxOutLen == 4

\* longest input handed to the confirmation reader, in characters
MaxInputLen == 4

(* --------------------------- string helpers ---------------------------- *)

NL == "\n"

None == <<>>

Some(x) == <<x>>

Range(s) == {s[i] : i \in 1..Len(s)}

\* all sequences over S of length at most n
RECURSIVE SeqsUpTo(_, _)
SeqsUpTo(S, n) ==
    IF n = 0 THEN {<<>>}
    ELSE LET shorter == SeqsUpTo(S, n - 1)
         IN  shorter \cup {Append(s, c) : s \in {t \in shorter : Len(t) = n - 1}, c \in S}

\* str::split(sep): the pieces between separators, empty pieces kept
RECURSIVE SplitAcc(_, _, _, _)
SplitAcc(s, sep, cur, acc) ==
    IF s = <<>> THEN Append(acc, cur)
    ELSE IF Head(s) = sep THEN SplitAcc(Tail(s), sep, <<>>, Append(acc, cur))
    ELSE SplitAcc(Tail(s), sep, Append(cur, Head(s)), acc)

Split(s, sep) == SplitAcc(s, sep, <<>>, <<>>)

StripLast(s, c) ==
    IF s # <<>> /\ s[Len(s)] = c THEN SubSeq(s, 1, Len(s) - 1) ELSE s

\* str::lines(): lines end in "\n" or "\r\n", the final line ending is
\* optional, and the empty string has no line at all
lines(s) ==
    IF s = <<>> THEN <<>>
    ELSE LET pieces == Split(StripLast(s, NL), NL)
         IN  [i \in 1..Len(pieces) |-> StripLast(pieces[i], "\r")]

(* ------------------------------- paths --------------------------------- *)

SEP == "/"

RECURSIVE StripTrailingSeps(_)
StripTrailingSeps(p) ==
    IF p # <<>> /\ p[Len(p)] = SEP
    THEN StripTrailingSeps(SubSeq(p, 1, Len(p) - 1))
    ELSE p

\* repeated separators collapse, as in path resolution
RECURSIVE CollapseSeps(_)
CollapseSeps(p) ==
    IF Len(p) < 2 THEN p
    ELSE IF p[1] = SEP /\ p[2] = SEP THEN CollapseSeps(Tail(p))
    ELSE <<Head(p)>> \o CollapseSeps(Tail(p))

\* Path::file_name: the final normal component; None for the empty path and
\* for the root (a path of separators only)
file_name(p) ==
    LET q == StripTrailingSeps(p)
        parts == Split(q, SEP)
    IN  IF q = <<>> THEN None ELSE Some(parts[Len(parts)])

\* the file system: regular files and directories by resolved path; the
\* root directory always exists
IsRoot(p) == p # <<>> /\ \A i \in 1..Len(p) : p[i] = SEP

Resolve(p) == CollapseSeps(StripTrailingSeps(p))

\* Path::exists
PathExists(fs, p) ==
    \/ IsRoot(p)
    \/ Resolve(p) \in fs.dirs
    \/ /\ p # <<>>
       /\ p[Len(p)] # SEP
       /\ Resolve(p) \in fs.files

\* Path::is_dir
is_dir(fs, p) == IsRoot(p) \/ Resolve(p) \in fs.dirs

\* fs::file_exists
file_exists(fs, path) == PathExists(fs, path)

(* ------------------- clam::mv_videos (library calls) -------------------- *)

Digits == {"0", "1", "2", "3", "4", "5", "6", "7", "8", "9"}

ScaleUnits == {"k", "M", "G", "T", "P"}

\* a value of Result<_, Error>: kind "Ok" or the kind of the error, with the
\* command, the text and the paths the error message carries
Outcome(kind, find, text, paths) ==
    [kind |-> kind, find |-> find, text |-> text, paths |-> paths]

Ok == Outcome("Ok", None, <<>>, <<>>)

\* mv_videos::check_size_arg: an optional scale unit after a non-negative
\* integer magnitude
check_size_arg(size) ==
    LET magnitude == IF size # <<>> /\ size[Len(size)] \in ScaleUnits
                     THEN SubSeq(size, 1, Len(size) - 1)
                     ELSE size
    IN  IF size # <<>> /\ magnitude # <<>> /\ Range(magnitude) \subseteq Digits
        THEN Ok
        ELSE Outcome("InvalidSize", None, size, <<>>)

\* mv_videos::parse_extensions: at most one trailing comma is dropped, then
\* the string is split on commas; the empty string is an error
parse_extensions(ext) ==
    IF ext = <<>> THEN None ELSE Some(Split(StripLast(ext, ","), ","))

\* mv_videos::build_find_cmd: the find invocation for these sources, size and
\* extensions, kept as its three ingredients; empty sources or extensions
\* are an error
build_find_cmd(source_directories, size, extensions) ==
    IF source_directories = <<>> THEN Outcome("EmptySources", None, <<>>, <<>>)
    ELSE IF extensions = <<>> THEN Outcome("EmptyExtensions", None, <<>>, <<>>)
    ELSE Outcome("Ok",
                 Some([sources |-> source_directories, size |-> size,
                       extensions |-> extensions]),
                 <<>>, <<>>)

\* mv_videos::destination_path: the destination directory joined with the
\* file-name component of the file; None (an InvalidFileName error) when the
\* file has no file-name component
destination_path(destination, f) ==
    IF file_name(f) = None THEN None
    ELSE Some(destination \o <<SEP>> \o file_name(f)[1])

(* ----------------------------- run, main ------------------------------- *)

\* run returns r.result to main
Return(r, outcome) == [r EXCEPT !.result = Some(outcome), !.pc = "returned"]

\* line 46
StepCheckSize(r) ==
    IF check_size_arg(r.args.size).kind # "Ok"
    THEN Return(r, check_size_arg(r.args.size))
    ELSE [r EXCEPT !.pc = "check_destination"]

\* a run that never looks at the destination
StepCheckDestination_unchecked(r) == [r EXCEPT !.pc = "parse_extensions"]

\* lines 47-49
StepCheckDestination(r) ==
    IF ~is_dir(r.fs, r.args.destination)
    THEN Return(r, Outcome("DestinationMissing", None, r.args.destination, <<>>))
    ELSE [r EXCEPT !.pc = "parse_extensions"]

\* lines 50-54
StepParseExtensions(r) ==
    IF parse_extensions(r.args.extensions) = None
    THEN Return(r, Outcome("EmptyExtensions", None, <<>>, <<>>))
    ELSE [r EXCEPT !.extensions = parse_extensions(r.args.extensions)[1],
                   !.pc = "build_find_cmd"]

\* lines 56-57
StepBuildFindCmd(r) ==
    LET built == build_find_cmd(r.args.sources, r.args.size, r.extensions)
    IN  IF built.kind # "Ok" THEN Return(r, built)
        ELSE [r EXCEPT !.find = built.find, !.pc = "exec"]

\* lines 59-62: the shell either cannot be spawned, or runs the command and
\* ends with an exit status and the captured output (stderr merged into it)
StepExec(r, spawned, exit_status, captured) ==
    IF ~spawned
    THEN Return([r EXCEPT !.exec_called = TRUE],
                Outcome("FailedToSpawn", r.find, <<>>, <<>>))
    ELSE [r EXCEPT !.exec_called = TRUE,
                   !.res = Some([exit_status |-> exit_status, stdout |-> captured]),
                   !.pc = "check_exit"]

\* a run that does not look at the exit status
StepCheckExit_ignored(r) == [r EXCEPT !.pc = "lines"]

\* lines 63-65
StepCheckExit(r) ==
    IF r.res[1].exit_status # 0
    THEN Return(r, Outcome("ShellCommandFailed", r.find, r.res[1].stdout, <<>>))
    ELSE [r EXCEPT !.pc = "lines"]

\* lines 66-70: one PathBuf per line of the captured output
StepLines(r) ==
    [r EXCEPT !.files = lines(r.res[1].stdout), !.pc = "partition"]

\* lines 72-75: the second `files` of the source is `existing` here
StepPartition(r) ==
    [r EXCEPT !.existing = SelectSeq(r.files, LAMBDA f : file_exists(r.fs, f)),
              !.non_existing = SelectSeq(r.files, LAMBDA f : ~file_exists(r.fs, f)),
              !.pc = "check_non_existing"]

\* a run that goes on with the files that do exist
StepCheckNonExisting_skipped(r) == [r EXCEPT !.pc = "moves"]

\* lines 77-79
StepCheckNonExisting(r) ==
    IF r.non_existing # <<>>
    THEN Return(r, Outcome("FilesNotFound", None, <<>>, r.non_existing))
    ELSE [r EXCEPT !.pc = "moves"]

\* what the file system holds once the file `from` has been renamed to `to`
Rename(fs, from, to) ==
    [fs EXCEPT !.files = (@ \ {Resolve(from)}) \cup {Resolve(to)}]

RECURSIVE RenameAll(_, _)
RenameAll(fs, pairs) ==
    IF pairs = <<>> THEN fs
    ELSE RenameAll(Rename(fs, pairs[1].from, pairs[1].to), Tail(pairs))

\* the longest prefix of the files that all have a destination
RECURSIVE PlannablePrefix(_, _)
PlannablePrefix(destination, fl) ==
    IF fl = <<>> \/ destination_path(destination, Head(fl)) = None THEN <<>>
    ELSE <<[from |-> Head(fl), to |-> destination_path(destination, Head(fl))[1]]>>
         \o PlannablePrefix(destination, Tail(fl))

\* a run that renames each file as soon as its destination is computed
StepMoves_eager(r) ==
    LET planned == PlannablePrefix(r.args.destination, r.existing)
    IN  IF Len(planned) < Len(r.existing)
        THEN [r EXCEPT !.fs = RenameAll(r.fs, planned), !.pc = "panicked"]
        ELSE [r EXCEPT !.fs = RenameAll(r.fs, planned), !.moves = planned,
                       !.pc = "print_moves"]

\* lines 81-87: unwrap() on a file without a destination path panics, which
\* ends the process without run returning
StepMoves(r) ==
    LET planned == PlannablePrefix(r.args.destination, r.existing)
    IN  IF Len(planned) < Len(r.existing)
        THEN [r EXCEPT !.pc = "panicked"]
        ELSE [r EXCEPT !.moves = planned, !.pc = "print_moves"]

\* the line printed for one pair of moves
MovingLine(m) == [text |-> "Moving _ to _ ... done.", from |-> m.from, to |-> m.to]

\* a loop that renames the files unless the dry flag is set
FsAfterMoves_renaming(fs, moves, dry) == IF dry THEN fs ELSE RenameAll(fs, moves)

\* lines 89-92: what the loop over the moves leaves of the file system
FsAfterMoves(fs, moves, dry) == fs

\* lines 89-94
StepPrintMoves(r) ==
    Return([r EXCEPT !.out = @ \o [i \in 1..Len(r.moves) |-> MovingLine(r.moves[i])],
                     !.fs = FsAfterMoves(r.fs, r.moves, r.args.dry)],
           Ok)

\* Error::causes: the error and the errors it wraps
causes(e) ==
    IF e.kind = "FailedToSpawn" THEN <<e.kind, "PopenError">> ELSE <<e.kind>>

\* lines 103-111
StepMain(r) ==
    IF r.result[1].kind = "Ok" THEN [r EXCEPT !.pc = "exit"]
    ELSE [r EXCEPT !.pc = "exit",
                   !.out = @ \o <<[text |-> "Failed:", from |-> <<>>, to |-> <<>>]>>
                             \o [i \in 1..Len(causes(r.result[1])) |->
                                   [text |-> causes(r.result[1])[i], from |-> <<>>, to |-> <<>>]]]

(* ---------------------- the state of an execution ---------------------- *)

\* size arguments: "", "100M", "100L"
SizeArgs == {<<>>, <<"1", "0", "0", "M">>, <<"1", "0", "0", "L">>}

\* extension arguments: "", "avi,mkv,mp4"
ExtensionArgs == {<<>>, <<"a", "v", "i", ",", "m", "k", "v", ",", "m", "p", "4">>}

\* source arguments: the command line requires at least one
SourceArgs == {<<"one">>, <<"one", "two">>}

\* destination arguments: "d" (a directory, when it exists) and "a"
DestinationArgs == {<<"d">>, <<"a">>}

\* the regular files the file system may hold at the start: "a" and "/a"
FileUniverse == {<<"a">>, <<SEP, "a">>}

\* the characters of the output captured from the discovery command
OutChars == {"a", SEP, NL}

ArgsSet ==
    [extensions : ExtensionArgs, size : SizeArgs, sources : SourceArgs,
     destination : DestinationArgs, dry : BOOLEAN]

FsSet == [files : SUBSET FileUniverse, dirs : {{}, {<<"d">>}}]

\* main has parsed the arguments and calls run
Start(args, fs) ==
    [args |-> args, fs |-> fs, fs0 |-> fs, vanished |-> {}, pc |-> "check_size",
     extensions |-> <<>>, find |-> None, exec_called |-> FALSE, res |-> None,
     files |-> <<>>, existing |-> <<>>, non_existing |-> <<>>, moves |-> <<>>,
     out |-> <<>>, result |-> None]

\* mv_videos is not being executed
NotRunning ==
    [Start([extensions |-> <<>>, size |-> <<>>, sources |-> <<>>,
            destination |-> <<>>, dry |-> FALSE],
           [files |-> {}, dirs |-> {}])
     EXCEPT !.pc = "not_running"]

\* no confirmation is being asked
AskIdle ==
    [pc |-> "idle", prompt |-> <<>>, expected |-> <<>>, input |-> <<>>,
     written |-> <<>>, result |-> None]

Init ==
    /\ \E args \in ArgsSet, fs \in FsSet :
          /\ run = Start(args, fs)
          /\ twin = Start([args EXCEPT !.dry = ~args.dry], fs)
    /\ ask = AskIdle

\* an execution takes the step of stage p when it is at that stage
At(r, p, next) == IF r.pc = p THEN next ELSE r

CheckSize ==
    /\ "check_size" \in {run.pc, twin.pc}
    /\ run' = At(run, "check_size", StepCheckSize(run))
    /\ twin' = At(twin, "check_size", StepCheckSize(twin))
    /\ UNCHANGED ask

CheckDestination ==
    /\ "check_destination" \in {run.pc, twin.pc}
    /\ run' = At(run, "check_destination", StepCheckDestination(run))
    /\ twin' = At(twin, "check_destination", StepCheckDestination(twin))
    /\ UNCHANGED ask

ParseExtensions ==
    /\ "parse_extensions" \in {run.pc, twin.pc}
    /\ run' = At(run, "parse_extensions", StepParseExtensions(run))
    /\ twin' = At(twin, "parse_extensions", StepParseExtensions(twin))
    /\ UNCHANGED ask

BuildFindCmd ==
    /\ "build_find_cmd" \in {run.pc, twin.pc}
    /\ run' = At(run, "build_find_cmd", StepBuildFindCmd(run))
    /\ twin' = At(twin, "build_find_cmd", StepBuildFindCmd(twin))
    /\ UNCHANGED ask

\* the environment decides whether the shell starts, its exit status, and
\* what it prints
Exec ==
    /\ "exec" \in {run.pc, twin.pc}
    /\ \E spawned \in BOOLEAN, exit_status \in {0, 1},
          captured \in SeqsUpTo(OutChars, MaxOutLen) :
          /\ spawned \/ (exit_status = 0 /\ captured = <<>>)
          /\ run' = At(run, "exec", StepExec(run, spawned, exit_status, captured))
          /\ twin' = At(twin, "exec", StepExec(twin, spawned, exit_status, captured))
    /\ UNCHANGED ask

CheckExit ==
    /\ "check_exit" \in {run.pc, twin.pc}
    /\ run' = At(run, "check_exit", StepCheckExit(run))
    /\ twin' = At(twin, "check_exit", StepCheckExit(twin))
    /\ UNCHANGED ask

Lines ==
    /\ "lines" \in {run.pc, twin.pc}
    /\ run' = At(run, "lines", StepLines(run))
    /\ twin' = At(twin, "lines", StepLines(twin))
    /\ UNCHANGED ask

VanishIn(r, f) ==
    [r EXCEPT !.fs.files = @ \ {f}, !.vanished = @ \cup ({f} \cap r.fs.files)]

\* the environment removes a file after discovery and before verification
Vanish ==
    /\ "partition" \in {run.pc, twin.pc}
    /\ \E f \in run.fs.files \cup twin.fs.files :
          /\ run' = VanishIn(run, f)
          /\ twin' = VanishIn(twin, f)
    /\ UNCHANGED ask

Partition ==
    /\ "partition" \in {run.pc, twin.pc}
    /\ run' = At(run, "partition", StepPartition(run))
    /\ twin' = At(twin, "partition", StepPartition(twin))
    /\ UNCHANGED ask

CheckNonExisting ==
    /\ "check_non_existing" \in {run.pc, twin.pc}
    /\ run' = At(run, "check_non_existing", StepCheckNonExisting(run))
    /\ twin' = At(twin, "check_non_existing", StepCheckNonExisting(twin))
    /\ UNCHANGED ask

Moves ==
    /\ "moves" \in {run.pc, twin.pc}
    /\ run' = At(run, "moves", StepMoves(run))
    /\ twin' = At(twin, "moves", StepMoves(twin))
    /\ UNCHANGED ask

PrintMoves ==
    /\ "print_moves" \in {run.pc, twin.pc}
    /\ run' = At(run, "print_moves", StepPrintMoves(run))
    /\ twin' = At(twin, "print_moves", StepPrintMoves(twin))
    /\ UNCHANGED ask

Main ==
    /\ "returned" \in {run.pc, twin.pc}
    /\ run' = At(run, "returned", StepMain(run))
    /\ twin' = At(twin, "returned", StepMain(twin))
    /\ UNCHANGED ask

Next ==
    \/ CheckSize
    \/ CheckDestination
    \/ ParseExtensions
    \/ BuildFindCmd
    \/ Exec
    \/ CheckExit
    \/ Lines
    \/ Vanish
    \/ Partition
    \/ CheckNonExisting
    \/ Moves
    \/ PrintMoves
    \/ Main

Spec == Init /\ [][Next]_vars

\* the process has ended: main returned, or a panic unwound it
Ended(r) == r.pc \in {"exit", "panicked"}

(* ------------------ console::ask_for_confirmation_from ----------------- *)

\* char::is_whitespace, for the characters that occur here
Whitespace == {" ", NL, "\t", "\r"}

RECURSIVE TrimStart(_)
TrimStart(s) ==
    IF s # <<>> /\ Head(s) \in Whitespace THEN TrimStart(Tail(s)) ELSE s

RECURSIVE TrimEnd(_)
TrimEnd(s) ==
    IF s # <<>> /\ s[Len(s)] \in Whitespace
    THEN TrimEnd(SubSeq(s, 1, Len(s) - 1))
    ELSE s

\* a comparison that trims nothing
trim_nothing(s) == s

\* str::trim
trim(s) == TrimEnd(TrimStart(s))

\* BufRead::read_line: the bytes up to and including the first newline, or
\* everything there is when there is none
RECURSIVE read_line(_)
read_line(input) ==
    IF input = <<>> THEN <<>>
    ELSE IF Head(input) = NL THEN <<NL>>
    ELSE <<Head(input)>> \o read_line(Tail(input))

InputChars == {"y", "e", "s", "Y", " ", NL}

Yes == <<"y", "e", "s">>

\* expected tokens: "yes" and "Yes"
ExpectedTokens == {Yes, <<"Y", "e", "s">>}

Prompt == <<"?">>

Confirmed(b) == [kind |-> "Ok", value |-> b]

FailedToReadConfirmation == [kind |-> "FailedToReadConfirmation", value |-> FALSE]

AskInit ==
    /\ \E input \in SeqsUpTo(InputChars, MaxInputLen), expected \in ExpectedTokens :
          ask = [pc |-> "write", prompt |-> Prompt, expected |-> expected,
                 input |-> input, written |-> <<>>, result |-> None]
    /\ run = NotRunning
    /\ twin = NotRunning

\* lines 156-158: one write call, which fails or accepts some of the bytes
AskWrite ==
    /\ ask.pc = "write"
    /\ \/ ask' = [ask EXCEPT !.result = Some(FailedToReadConfirmation), !.pc = "done"]
       \/ \E n \in 0..Len(ask.prompt) :
             ask' = [ask EXCEPT !.written = SubSeq(ask.prompt, 1, n), !.pc = "flush"]
    /\ UNCHANGED <<run, twin>>

\* lines 159-160
AskFlush ==
    /\ ask.pc = "flush"
    /\ \/ ask' = [ask EXCEPT !.result = Some(FailedToReadConfirmation), !.pc = "done"]
       \/ ask' = [ask EXCEPT !.pc = "read_line"]
    /\ UNCHANGED <<run, twin>>

\* line 164
Answer(line, expected) == Confirmed(trim(line) = expected)

\* lines 162-166
AskReadLine ==
    /\ ask.pc = "read_line"
    /\ \/ ask' = [ask EXCEPT !.result = Some(FailedToReadConfirmation), !.pc = "done"]
       \/ ask' = [ask EXCEPT !.result = Some(Answer(read_line(ask.input), ask.expected)),
                             !.pc = "done"]
    /\ UNCHANGED <<run, twin>>

AskNext ==
    \/ AskWrite
    \/ AskFlush
    \/ AskReadLine

SpecAsk == AskInit /\ [][AskNext]_vars

(* ------------------------------- claims -------------------------------- *)

\* the file system is as at the start, less the files the environment removed
Untouched(r) == r.fs = [r.fs0 EXCEPT !.files = @ \ r.vanished]

Returned(r, kind) == r.pc = "exit" /\ r.result # None /\ r.result[1].kind = kind

\* run got past every check: discovery ran, exited with status 0, every
\* reported file exists
DiscoverySucceeded(r) == r.res # None /\ r.res[1].exit_status = 0

MovingLines(r) == SelectSeq(r.out, LAMBDA l : l.from # <<>> \/ l.to # <<>>)

ValidArgsButDestination(a) ==
    /\ check_size_arg(a.size).kind = "Ok"
    /\ a.extensions # <<>>
    /\ a.sources # <<>>

\* C1: without the dry flag, after a successful run every verified file is
\* gone from its source path and exists at destination/<file name>.
C1_FilesAreMoved ==
    (Returned(run, "Ok") /\ ~run.args.dry) =>
        \A i \in 1..Len(run.moves) :
            /\ ~PathExists(run.fs, run.moves[i].from)
            /\ PathExists(run.fs, run.moves[i].to)

\* C2: with the dry flag, a successful run leaves the file system as it was
\* and reports exactly one "would move" entry per planned pair, in order.
C2_DryRunReportsWouldMove ==
    (Returned(run, "Ok") /\ run.args.dry) =>
        /\ Untouched(run)
        /\ MovingLines(run) =
              [i \in 1..Len(run.moves) |->
                  [text |-> "would move", from |-> run.moves[i].from,
                   to |-> run.moves[i].to]]

\* C3: when some path reported by discovery does not exist at verification
\* time, run fails with an error naming exactly the missing paths, and no
\* move is planned, reported or performed, also for the paths that exist.
C3_VanishedFilesAbort ==
    (Ended(run) /\ DiscoverySucceeded(run)
       /\ \E i \in 1..Len(run.files) : ~file_exists(run.fs, run.files[i])) =>
        /\ Returned(run, "FilesNotFound")
        /\ run.result[1].paths =
              SelectSeq(run.files, LAMBDA f : ~file_exists(run.fs, f))
        /\ run.moves = <<>>
        /\ MovingLines(run) = <<>>
        /\ Untouched(run)

\* a file vanished after discovery, another reported file still exists, and
\* the run has failed
C3_Witness ==
    /\ Returned(run, "FilesNotFound")
    /\ run.vanished # {}
    /\ run.existing # <<>>

ValidationFailed(r) ==
    /\ r.result # None
    /\ r.result[1].kind \in {"InvalidSize", "EmptyExtensions", "EmptySources"}

\* destination planning met a file without a file-name component
PlanningFailed(r) ==
    \/ r.pc = "panicked"
    \/ (r.result # None /\ r.result[1].kind = "InvalidFileName")

\* C4 as claimed: a validation failure and a planning failure both come
\* before the discovery process is spawned and before any file system change.
C4_FailuresBeforeDiscovery ==
    (ValidationFailed(run) \/ PlanningFailed(run)) =>
        (~run.exec_called /\ Untouched(run))

\* C4 as amended: a validation failure comes before the discovery process is
\* spawned and before any file system change; a planning failure comes after
\* the discovery process has run, and before any file system change.
C4_ValidationBeforePlanningAfterDiscovery ==
    /\ ValidationFailed(run) =>
          (~run.exec_called /\ run.find = None /\ run.res = None /\ Untouched(run))
    /\ PlanningFailed(run) =>
          (run.exec_called /\ DiscoverySucceeded(run) /\ Untouched(run))

\* planning failed on the second of two verified files
C4_Witness ==
    /\ PlanningFailed(run)
    /\ Len(run.existing) >= 2
    /\ file_name(run.existing[1]) # None

\* C5: when the destination is not a directory and the other arguments are
\* valid, run fails with the destination-missing error; no command is built
\* or spawned, no candidate verified, no move planned.
C5_DestinationMissingFailsFast ==
    (~is_dir(run.fs0, run.args.destination) /\ ValidArgsButDestination(run.args)) =>
        /\ run.find = None /\ ~run.exec_called /\ run.res = None
        /\ run.files = <<>> /\ run.existing = <<>> /\ run.moves = <<>>
        /\ Ended(run) => Returned(run, "DestinationMissing")

C5_Witness ==
    /\ Returned(run, "DestinationMissing")
    /\ ValidArgsButDestination(run.args)
    /\ run.fs0.files # {}

\* C6: when the discovery process ran and exited with a non-zero status, run
\* fails with an error carrying the command and the captured output; no line
\* is parsed, verified or moved; a process that could not be spawned gives a
\* different error.
C6_NonZeroExitFails ==
    /\ (Ended(run) /\ run.res # None /\ run.res[1].exit_status # 0) =>
          /\ Returned(run, "ShellCommandFailed")
          /\ run.find # None
          /\ run.result[1].find = run.find
          /\ run.result[1].text = run.res[1].stdout
          /\ run.files = <<>> /\ run.existing = <<>> /\ run.moves = <<>>
          /\ MovingLines(run) = <<>>
    /\ (Ended(run) /\ run.exec_called /\ run.res = None) =>
          Returned(run, "FailedToSpawn")

\* the process failed after printing the name of an existing file
C6_Witness ==
    /\ Returned(run, "ShellCommandFailed")
    /\ \E f \in run.fs.files : f \in Range(lines(run.res[1].stdout))

\* C7: the candidates are the non-empty lines of the output, in order and
\* with repetitions; empty output gives no candidate and a successful run
\* with no moves.
C7_OneCandidatePerNonEmptyLine ==
    (Ended(run) /\ DiscoverySucceeded(run)) =>
        /\ run.files = SelectSeq(Split(run.res[1].stdout, NL), LAMBDA l : l # <<>>)
        /\ run.res[1].stdout = <<>> => (Returned(run, "Ok") /\ run.moves = <<>>)

\* C8: a verified file without a file-name component makes run return an
\* InvalidFileName error, which main reports after "Failed:"; the process
\* does not end abnormally and no move is planned for that file.
C8_InvalidFileNameIsReturned ==
    (Ended(run) /\ \E i \in 1..Len(run.existing) : file_name(run.existing[i]) = None) =>
        /\ Returned(run, "InvalidFileName")
        /\ \E i \in 1..Len(run.out) : run.out[i].text = "Failed:"
        /\ \A i \in 1..Len(run.moves) : file_name(run.moves[i].from) # None

\* the line of the reader's input, without its line ending
FirstLine(input) == Split(input, NL)[1]

\* t is s without the whitespace s begins and ends with
IsTrimOf(s, t) ==
    /\ t = <<>> \/ (t[1] \notin Whitespace /\ t[Len(t)] \notin Whitespace)
    /\ \E i \in 1..(Len(s) + 1) :
          /\ i + Len(t) - 1 <= Len(s)
          /\ SubSeq(s, i, i + Len(t) - 1) = t
          /\ \A k \in 1..Len(s) : (k < i \/ k >= i + Len(t)) => s[k] \in Whitespace

AskAnswered == ask.pc = "done" /\ ask.result[1].kind = "Ok"

\* C9 as claimed: the answer is true exactly when the line read equals the
\* expected token.
C9_TrueIffLineEqualsExpected ==
    (AskAnswered /\ ask.written = ask.prompt) =>
        (ask.result[1].value = (FirstLine(ask.input) = ask.expected))

\* C9 as amended: the answer is true exactly when the line read, with the
\* whitespace at both its ends removed, equals the expected token (compared
\* case-sensitively); an input of at most 3 characters other than "yes" is
\* answered false when "yes" is expected.
C9_TrueIffTrimmedLineEqualsExpected ==
    AskAnswered =>
        /\ ask.result[1].value = IsTrimOf(FirstLine(ask.input), ask.expected)
        /\ (ask.expected = Yes /\ Len(ask.input) <= 3 /\ ask.input # Yes) =>
              ~ask.result[1].value

\* an input that is not the expected token is answered true
C9_Witness ==
    /\ AskAnswered
    /\ ask.result[1].value
    /\ ask.input # ask.expected
    /\ ask.written = ask.prompt

====
